---- MODULE Spec2Model ----
(***************************************************************************)
(* Model of osbenchmark/utils/dataset.py: the three DataSet readers        *)
(* (HDF5DataSet, ParquetDataSet, BigANNVectorDataSet) driven by one caller *)
(* that issues read / seek / size / reset calls on a single reader.        *)
(*                                                                         *)
(* Python values are encoded as follows.  None (or an empty list, where   *)
(* the code only tests truthiness) is the empty sequence <<>>; an opened   *)
(* object is a one-element sequence holding its state.  Row offsets are    *)
(* 0-based as in the code; TLA+ sequences are 1-based, so row i of a file  *)
(* is element i + 1 of the sequence that holds its rows.                   *)
(***************************************************************************)
EXTENDS Integers, Sequences, FiniteSets, TLC

\* ---------------------------------------------------------------- bounds
\* Largest number of rows of a data set file.
MaxRows == 5
\* Largest chunk_size passed to read.
MaxChunk == 3
\* Dimension written in the header of a flat (bigann) file.
Dim == 2
\* Largest number of bytes (flat file) or rows (parquet file) missing from the
\* end of a damaged file.
MaxCut == 4

\* ------------------------------------------------------ program constants
BEGINNING == 0
\* ParquetDataSet.DEFAULT_BATCH_SIZE is 500 in the source; the model scales
\* the rows-per-batch of iter_batches down so that files of MaxRows rows
\* span several batches.
DEFAULT_BATCH_SIZE == 2
DATA_SET_HEADER_LENGTH == 8
BYTES_PER_U8INT == 1
BYTES_PER_FLOAT == 4

Min(a, b) == IF a < b THEN a ELSE b
Max(a, b) == IF a > b THEN a ELSE b

\* Python's s[b:e] on a sequence (list, h5py data set, pyarrow RecordBatch):
\* negative bounds count from the end, bounds are clipped to [0, len(s)],
\* and a reversed range is empty.
SliceIndex(i, n) == IF i < 0 THEN Max(i + n, 0) ELSE Min(i, n)
PySlice(s, b, e) ==
    LET lo == SliceIndex(b, Len(s))
        hi == SliceIndex(e, Len(s))
    IN  IF hi <= lo THEN << >> ELSE SubSeq(s, lo + 1, hi)

\* int.from_bytes(b, "little")
RECURSIVE FromBytesLittle(_)
FromBytesLittle(b) ==
    IF b = << >> THEN 0 ELSE Head(b) + 256 * FromBytesLittle(Tail(b))

\* n.to_bytes(4, "little"): how a file's writer lays out a header field.
ToBytesLittle4(n) ==
    << n % 256, (n \div 256) % 256, (n \div 65536) % 256, (n \div 16777216) % 256 >>

\* ------------------------------------------------------------- the files
\* A file is described by its path record:
\*   format  "hdf5" | "parquet" | "bigann"      (get_data_set's argument)
\*   n       number of rows the file holds
\*   context the Context passed to HDF5DataSet   (hdf5 only)
\*   ext     the file name's extension           (bigann only)
\*   cut     0 for a well-formed file; for a damaged one, how much is missing
\*           from its end: bytes of a flat file, rows of a parquet file whose
\*           metadata still declares n rows
Formats == {"hdf5", "parquet", "bigann"}
Contexts == {"INDEX", "QUERY", "NEIGHBORS"}

\* HDF5DataSet.parse_context: Context -> name of the h5py data set.
parse_context(context) ==
    IF context = "NEIGHBORS" THEN "neighbors"
    ELSE IF context = "INDEX" THEN "train"
    ELSE IF context = "QUERY" THEN "test"
    ELSE "Unsupported context"

\* Content of an hdf5 file: h5py.File(path)[name] is a data set of p.n rows;
\* the rows of different data sets of one file differ.
FieldTag(name) ==
    IF name = "train" THEN 100 ELSE IF name = "test" THEN 200 ELSE 300
h5pyDataset(p, name) == [i \in 1..p.n |-> FieldTag(name) + i - 1]

\* Content of a parquet file: the values of the selected column, one per row
\* the file holds.
ParquetColumn(p) == [i \in 1..Max(p.n - p.cut, 0) |-> 500 + i - 1]
\* pq.ParquetFile(path).metadata.num_rows: the row count the file declares.
ParquetNumRows(p) == p.n
\* Number of batches iter_batches(batch_size=DEFAULT_BATCH_SIZE) yields.
NumBatches(p) ==
    (Len(ParquetColumn(p)) + DEFAULT_BATCH_SIZE - 1) \div DEFAULT_BATCH_SIZE
\* The k-th batch (k = 0, 1, ...) of the iterator: consecutive rows of the
\* column, DEFAULT_BATCH_SIZE of them except possibly in the last batch.
IterBatch(p, k) ==
    SubSeq(ParquetColumn(p), k * DEFAULT_BATCH_SIZE + 1,
           Min((k + 1) * DEFAULT_BATCH_SIZE, Len(ParquetColumn(p))))


\* ------------------------------------------------------- results of calls
\* What a method call leaves behind: the reader object after the call, how
\* the call ended and what it returned.
\*   outcome  "None"     the call returned None (read's empty marker)
\*            "vectors"  read returned an array, held in vectors
\*            "value"    size returned the number held in value
\*            "ok"       seek / reset returned
\*            "raise"    the call raised an exception
\*            "hang"     the call entered a loop that never ends
\*   opened   the call opened the data set file
\*   pulls    the batches (by index) the call took from the batch iterator
Result(s, outcome, vectors, value, opened, pulls) ==
    [self |-> s, outcome |-> outcome, vectors |-> vectors, value |-> value,
     opened |-> opened, pulls |-> pulls]

\* ------------------------------------------------------------ HDF5DataSet
HDF5_init(dataset_path, context) ==
    [dataset_path |-> dataset_path,
     context |-> parse_context(context),
     current |-> BEGINNING,
     data |-> << >>]

HDF5_load_reopen(s) ==
    [self |-> [s EXCEPT !.data = << h5pyDataset(s.dataset_path, s.context) >>],
     opened |-> TRUE]

\* _load: open the file and select the data set, once.
HDF5_load(s) ==
    IF s.data = << >>
    THEN [self |-> [s EXCEPT !.data = << h5pyDataset(s.dataset_path, s.context) >>],
          opened |-> TRUE]
    ELSE [self |-> s, opened |-> FALSE]

HDF5_size(s) ==
    LET l == HDF5_load(s)
    IN  Result(l.self, "value", << >>, Len(l.self.data[1]), l.opened, << >>)

HDF5_read_gt(s, chunk_size) ==
    LET l == HDF5_load(s)
        s1 == l.self
        size == HDF5_size(s1).value
        end_offset == Min(s1.current + chunk_size, size)
    IN  IF s1.current > size
        THEN Result(s1, "None", << >>, 0, l.opened, << >>)
        ELSE Result([s1 EXCEPT !.current = end_offset], "vectors",
                    PySlice(s1.data[1], s1.current, end_offset), 0, l.opened, << >>)

HDF5_read(s, chunk_size) ==
    LET l == HDF5_load(s)
        s1 == l.self
        size == HDF5_size(s1).value
        end_offset == IF s1.current + chunk_size > size
                      THEN size ELSE s1.current + chunk_size
    IN  IF s1.current >= size
        THEN Result(s1, "None", << >>, 0, l.opened, << >>)
        ELSE Result([s1 EXCEPT !.current = end_offset], "vectors",
                    PySlice(s1.data[1], s1.current, end_offset), 0, l.opened, << >>)

HDF5_seek_unchecked(s, offset) ==
    IF offset < BEGINNING
    THEN Result(s, "raise", << >>, 0, FALSE, << >>)
    ELSE LET z == HDF5_size(s)
         IN  Result([z.self EXCEPT !.current = offset], "ok", << >>, 0, z.opened, << >>)

HDF5_seek(s, offset) ==
    IF offset < BEGINNING
    THEN Result(s, "raise", << >>, 0, FALSE, << >>)
    ELSE LET z == HDF5_size(s)
         IN  IF offset >= z.value
             THEN Result(z.self, "raise", << >>, 0, z.opened, << >>)
             ELSE Result([z.self EXCEPT !.current = offset], "ok", << >>, 0,
                         z.opened, << >>)

HDF5_reset(s) ==
    Result([s EXCEPT !.current = BEGINNING], "ok", << >>, 0, FALSE, << >>)

\* --------------------------------------------------------- ParquetDataSet
\* file is << >> (None) or << "ParquetFile" >>; batch_iterator is << >> (None)
\* or << k >>, an iterator whose next batch is batch k of the file.
Parquet_init(dataset_path, column) ==
    [dataset_path |-> dataset_path,
     file |-> << >>,
     column |-> column,
     current |-> BEGINNING,
     batch_iterator |-> << >>,
     prev_batch |-> << >>,
     file_batch_start |-> 0,
     file_batch_end |-> 0]

\* next(self.batch_iterator) raises StopIteration once every batch is taken.
IteratorExhausted(s) == s.batch_iterator[1] >= NumBatches(s.dataset_path)

Parquet_get_batch_refetch(s) ==
    IF IteratorExhausted(s)
    THEN [outcome |-> "raise", self |-> s, batch |-> << >>, pulls |-> << >>]
    ELSE LET k == s.batch_iterator[1]
             batch == IterBatch(s.dataset_path, k)
         IN  [outcome |-> "ok",
              self |-> [s EXCEPT !.batch_iterator = << k + 1 >>,
                                 !.file_batch_start = s.file_batch_end,
                                 !.file_batch_end = s.file_batch_end + Len(batch)],
              batch |-> batch,
              pulls |-> << k >>]

\* get_batch: the held batch if there is one, else the iterator's next batch,
\* moving the window [file_batch_start, file_batch_end) onto it.
Parquet_get_batch(s) ==
    IF s.prev_batch # << >>
    THEN [outcome |-> "ok", self |-> s, batch |-> s.prev_batch, pulls |-> << >>]
    ELSE IF IteratorExhausted(s)
    THEN [outcome |-> "raise", self |-> s, batch |-> << >>, pulls |-> << >>]
    ELSE LET k == s.batch_iterator[1]
             batch == IterBatch(s.dataset_path, k)
         IN  [outcome |-> "ok",
              self |-> [s EXCEPT !.batch_iterator = << k + 1 >>,
                                 !.file_batch_start = s.file_batch_end,
                                 !.file_batch_end = s.file_batch_end + Len(batch)],
              batch |-> batch,
              pulls |-> << k >>]

\* _extract_vectors: the while True loop, one iteration per unfolding.  An
\* iteration that takes the `continue` branch on a held batch changes nothing
\* (get_batch returns the same batch, the window and start_offset stay), so
\* every later iteration is the same one: the call never returns.
RECURSIVE ExtractLoop(_, _, _, _, _)
ExtractLoop(s, start_offset, end_offset, vectors, pulls) ==
    LET g == Parquet_get_batch(s)
        s1 == g.self
        batch == g.batch
        batch_length == Len(batch)
        pulled == pulls \o g.pulls
        start == IF start_offset < s1.file_batch_start
                 THEN s1.file_batch_start ELSE start_offset
        copy_begin_offset == batch_length - (s1.file_batch_end - start)
        copy_end_offset == batch_length - (s1.file_batch_end - end_offset)
    IN  IF g.outcome = "raise"
        THEN Result(s, "raise", << >>, 0, FALSE, pulled)
        ELSE IF batch = << >>
        THEN Result(s1, "vectors", vectors, 0, FALSE, pulled)
        ELSE IF start_offset > s1.file_batch_end
        THEN IF g.pulls = << >>
             THEN Result(s1, "hang", << >>, 0, FALSE, pulled)
             ELSE ExtractLoop(s1, start_offset, end_offset, vectors, pulled)
        ELSE IF end_offset <= s1.file_batch_end
        THEN Result([s1 EXCEPT !.prev_batch = batch], "vectors",
                    vectors \o PySlice(batch, copy_begin_offset, copy_end_offset),
                    0, FALSE, pulled)
        ELSE ExtractLoop([s1 EXCEPT !.prev_batch = << >>], start, end_offset,
                         vectors \o PySlice(batch, copy_begin_offset, batch_length),
                         pulled)

Parquet_extract_vectors_keep_rest(s, start_offset, end_offset) ==
    LET r == ExtractLoop(s, start_offset, end_offset, << >>, << >>)
    IN  [r EXCEPT !.self.prev_batch =
            PySlice(r.self.prev_batch,
                    Len(r.self.prev_batch) - (r.self.file_batch_end - end_offset),
                    Len(r.self.prev_batch))]

Parquet_extract_vectors(s, start_offset, end_offset) ==
    ExtractLoop(s, start_offset, end_offset, << >>, << >>)

Parquet_load_always(s) ==
    [self |-> [s EXCEPT !.file = << "ParquetFile" >>,
                        !.batch_iterator = << 0 >>,
                        !.prev_batch = << >>,
                        !.file_batch_start = 0,
                        !.file_batch_end = 0],
     opened |-> TRUE]

\* _load: open the file and start a fresh batch iterator when no file is held.
Parquet_load(s) ==
    IF s.file = << >>
    THEN [self |-> [s EXCEPT !.file = << "ParquetFile" >>,
                             !.batch_iterator = << 0 >>,
                             !.prev_batch = << >>,
                             !.file_batch_start = 0,
                             !.file_batch_end = 0],
          opened |-> TRUE]
    ELSE [self |-> s, opened |-> FALSE]

Parquet_size(s) ==
    LET l == Parquet_load(s)
    IN  Result(l.self, "value", << >>, ParquetNumRows(l.self.dataset_path),
               l.opened, << >>)

Parquet_read(s, chunk_size) ==
    LET l == Parquet_load(s)
        s1 == l.self
        size == Parquet_size(s1).value
        end_offset == IF s1.current + chunk_size > size
                      THEN size ELSE s1.current + chunk_size
        x == Parquet_extract_vectors(s1, s1.current, end_offset)
    IN  IF s1.current >= size
        THEN Result(s1, "None", << >>, 0, l.opened, << >>)
        ELSE IF x.outcome = "vectors"
        THEN Result([x.self EXCEPT !.current = end_offset], "vectors", x.vectors,
                    0, l.opened, x.pulls)
        ELSE Result(x.self, x.outcome, << >>, 0, l.opened, x.pulls)

Parquet_seek(s, offset) ==
    IF offset < BEGINNING
    THEN Result(s, "raise", << >>, 0, FALSE, << >>)
    ELSE LET z == Parquet_size(s)
         IN  IF offset >= z.value
             THEN Result(z.self, "raise", << >>, 0, z.opened, << >>)
             ELSE Result([z.self EXCEPT !.current = offset], "ok", << >>, 0,
                         z.opened, << >>)

Parquet_reset_keep_file(s) ==
    Result([s EXCEPT !.current = BEGINNING], "ok", << >>, 0, FALSE, << >>)

\* reset: rewind and drop the file, so that the next _load starts over.
Parquet_reset(s) ==
    Result([s EXCEPT !.current = BEGINNING, !.file = << >>], "ok", << >>, 0,
           FALSE, << >>)

\* ---------------------------------------------------- BigANNVectorDataSet
U8BIN_EXTENSION == "u8bin"
FBIN_EXTENSION == "fbin"
SUPPORTED_EXTENSION == {FBIN_EXTENSION, U8BIN_EXTENSION}

\* Content of a flat file, byte by byte: the header (point count and
\* dimension, 4 bytes each, little endian), then the components of the rows,
\* row after row.  Data bytes stay below 128 so that a 4-byte field fits the
\* model's integers; bytes at different offsets differ.
BytesPerValueOf(ext) == IF ext = U8BIN_EXTENSION THEN BYTES_PER_U8INT ELSE BYTES_PER_FLOAT
FlatDataLength(p) == p.n * Dim * BytesPerValueOf(p.ext)
FlatFileWhole(p) ==
    ToBytesLittle4(p.n) \o ToBytesLittle4(Dim)
        \o [i \in 1..FlatDataLength(p) |-> (i + DATA_SET_HEADER_LENGTH - 1) % 128]
FlatFile(p) == SubSeq(FlatFileWhole(p), 1, Max(Len(FlatFileWhole(p)) - p.cut, 0))

\* file is << >> (None) or << pos >>, an open binary file at byte offset pos.
\* reader is << >> until _init_internal_params sets it, then << ext >>, the
\* lambda _value_reader chose for that extension.
BigANN_init(dataset_path) ==
    [dataset_path |-> dataset_path,
     file |-> << >>,
     current |-> BEGINNING,
     num_points |-> 0,
     dimension |-> 0,
     bytes_per_num |-> 0,
     reader |-> << >>]

Advance_stay(s, bytes) == [self |-> s, bytes |-> bytes]

\* file.read(k): the next k bytes, fewer at the end of the file.
Advance(s, bytes) == [self |-> [s EXCEPT !.file = << s.file[1] + Len(bytes) >>],
                      bytes |-> bytes]
FileRead(s, k) ==
    Advance(s, PySlice(FlatFile(s.dataset_path), s.file[1], s.file[1] + k))

\* _get_extension / _get_data_size
ExtensionSupported(p) == p.ext \in SUPPORTED_EXTENSION
get_data_size(p) ==
    IF p.ext = U8BIN_EXTENSION THEN BYTES_PER_U8INT ELSE BYTES_PER_FLOAT

\* _init_internal_params, in the order of its statements: open the file and
\* measure it; read the two header fields; pick the value size from the
\* extension; compare the file's length with the header; pick the reader.
\* A raise leaves behind what the statements before it assigned.
SetNumPoints(r) == [r.self EXCEPT !.num_points = FromBytesLittle(r.bytes)]
SetDimension(r) == [r.self EXCEPT !.dimension = FromBytesLittle(r.bytes)]
ParseHeader(s) == SetDimension(FileRead(SetNumPoints(FileRead(s, 4)), 4))

CheckLength_unchecked(s, num_bytes) ==
    [self |-> [s EXCEPT !.reader = << s.dataset_path.ext >>], outcome |-> "ok"]

CheckLength(s, num_bytes) ==
    IF (num_bytes - DATA_SET_HEADER_LENGTH)
            # s.num_points * s.dimension * s.bytes_per_num
    THEN [self |-> s, outcome |-> "raise"]
    ELSE [self |-> [s EXCEPT !.reader = << s.dataset_path.ext >>], outcome |-> "ok"]

CheckExtension(s, num_bytes) ==
    IF ~ExtensionSupported(s.dataset_path)
    THEN [self |-> s, outcome |-> "raise"]
    ELSE CheckLength([s EXCEPT !.bytes_per_num = get_data_size(s.dataset_path)],
                     num_bytes)

InitOpened(s, num_bytes) ==
    IF num_bytes < DATA_SET_HEADER_LENGTH
    THEN [self |-> s, outcome |-> "raise"]
    ELSE CheckExtension(ParseHeader(s), num_bytes)

BigANN_init_internal_params(s) ==
    InitOpened([s EXCEPT !.file = << BEGINNING >>], Len(FlatFile(s.dataset_path)))

Loaded(i) == [self |-> i.self, outcome |-> i.outcome, opened |-> TRUE]

BigANN_load(s) ==
    IF s.file = << >>
    THEN Loaded(BigANN_init_internal_params(s))
    ELSE [self |-> s, outcome |-> "ok", opened |-> FALSE]

\* self.reader(self.file): one component.  The u8bin lambda gives
\* float(int.from_bytes(...)), modelled by the integer; the fbin lambda gives
\* struct.unpack('<f', ...), a tuple holding one float, modelled by the
\* one-element sequence of the field's 32 bits read as a little-endian
\* number.  struct.unpack raises on fewer than 4 bytes.
ValueU8(r) == [self |-> r.self, outcome |-> "ok", value |-> FromBytesLittle(r.bytes)]
ValueFloat(r) ==
    IF Len(r.bytes) < BYTES_PER_FLOAT
    THEN [self |-> r.self, outcome |-> "raise", value |-> << >>]
    ELSE [self |-> r.self, outcome |-> "ok", value |-> << FromBytesLittle(r.bytes) >>]

\* Before _init_internal_params has assigned self.reader the attribute
\* does not exist, and the call raises.
ReadValue(s) ==
    IF s.reader = << >>
    THEN [self |-> s, outcome |-> "raise", value |-> << >>]
    ELSE IF s.reader = << U8BIN_EXTENSION >>
    THEN ValueU8(FileRead(s, BYTES_PER_U8INT))
    ELSE ValueFloat(FileRead(s, BYTES_PER_FLOAT))

\* _read_vector: self.dimension components, in stream order.
RECURSIVE ReadComponents(_, _, _)
AfterValue(v, count, vector) ==
    IF v.outcome = "raise"
    THEN [self |-> v.self, outcome |-> "raise", vector |-> << >>]
    ELSE ReadComponents(v.self, count - 1, Append(vector, v.value))

ReadComponents(s, count, vector) ==
    IF count = 0
    THEN [self |-> s, outcome |-> "ok", vector |-> vector]
    ELSE AfterValue(ReadValue(s), count, vector)

BigANN_read_vector(s) == ReadComponents(s, s.dimension, << >>)

\* The list comprehension of read: count vectors, in stream order.
RECURSIVE ReadVectors(_, _, _)
AfterVector(v, count, vectors) ==
    IF v.outcome = "raise"
    THEN [self |-> v.self, outcome |-> "raise", vectors |-> << >>]
    ELSE ReadVectors(v.self, count - 1, Append(vectors, v.vector))

ReadVectors(s, count, vectors) ==
    IF count = 0
    THEN [self |-> s, outcome |-> "ok", vectors |-> vectors]
    ELSE AfterVector(BigANN_read_vector(s), count, vectors)

SizeLoaded(l) ==
    IF l.outcome = "raise"
    THEN Result(l.self, "raise", << >>, 0, l.opened, << >>)
    ELSE Result(l.self, "value", << >>, l.self.num_points, l.opened, << >>)

BigANN_size(s) == SizeLoaded(BigANN_load(s))

\* read once the vectors of rows current .. end_offset - 1 have been read.
ReadDone(x, end_offset, opened) ==
    IF x.outcome = "raise"
    THEN Result(x.self, "raise", << >>, 0, opened, << >>)
    ELSE Result([x.self EXCEPT !.current = end_offset], "vectors", x.vectors,
                0, opened, << >>)

ReadTo(s, end_offset, opened) ==
    ReadDone(ReadVectors(s, end_offset - s.current, << >>), end_offset, opened)

\* read once _load is through; size is what self.size() returns.
ReadLoaded(l, chunk_size, size) ==
    IF l.outcome = "raise"
    THEN Result(l.self, "raise", << >>, 0, l.opened, << >>)
    ELSE IF l.self.current >= size
    THEN Result(l.self, "None", << >>, 0, l.opened, << >>)
    ELSE ReadTo(l.self,
                IF l.self.current + chunk_size > size
                THEN size ELSE l.self.current + chunk_size,
                l.opened)

ReadWith(l, chunk_size) == ReadLoaded(l, chunk_size, l.self.num_points)

BigANN_read(s, chunk_size) == ReadWith(BigANN_load(s), chunk_size)

SeekLoaded_gt(l, offset) ==
    IF l.outcome = "raise" \/ offset < BEGINNING \/ offset > l.self.num_points
    THEN Result(l.self, "raise", << >>, 0, l.opened, << >>)
    ELSE Result([l.self EXCEPT
                    !.file = << DATA_SET_HEADER_LENGTH
                                  + (l.self.dimension * l.self.bytes_per_num * offset) >>,
                    !.current = offset],
                "ok", << >>, 0, l.opened, << >>)

\* seek once _load is through.
SeekLoaded(l, offset) ==
    IF l.outcome = "raise"
    THEN Result(l.self, "raise", << >>, 0, l.opened, << >>)
    ELSE IF offset < BEGINNING
    THEN Result(l.self, "raise", << >>, 0, l.opened, << >>)
    ELSE IF offset >= l.self.num_points
    THEN Result(l.self, "raise", << >>, 0, l.opened, << >>)
    ELSE Result([l.self EXCEPT
                    !.file = << DATA_SET_HEADER_LENGTH
                                  + (l.self.dimension * l.self.bytes_per_num * offset) >>,
                    !.current = offset],
                "ok", << >>, 0, l.opened, << >>)

BigANN_seek(s, offset) == SeekLoaded(BigANN_load(s), offset)

BigANN_reset_to_start(s) ==
    IF s.file # << >>
    THEN Result([s EXCEPT !.file = << BEGINNING >>,
                          !.current = BEGINNING], "ok", << >>, 0, FALSE, << >>)
    ELSE Result([s EXCEPT !.current = BEGINNING], "ok", << >>, 0, FALSE, << >>)

BigANN_reset(s) ==
    IF s.file # << >>
    THEN Result([s EXCEPT !.file = << DATA_SET_HEADER_LENGTH >>,
                          !.current = BEGINNING], "ok", << >>, 0, FALSE, << >>)
    ELSE Result([s EXCEPT !.current = BEGINNING], "ok", << >>, 0, FALSE, << >>)

\* ------------------------------------------------------------ get_data_set
get_data_set(data_set_format, path, context, column_name) ==
    IF data_set_format = "hdf5" THEN HDF5_init(path, context)
    ELSE IF data_set_format = "bigann" THEN BigANN_init(path)
    ELSE Parquet_init(path, column_name)

\* ---------------------------------------------------------- state machine
\* format   the format name the reader was obtained for
\* self     the reader object
\* last     the latest call: its name, argument, Result, the reader object
\*          as it was when the call was made (pre), and the name, argument
\*          and outcome of the call before it (prev)
\* run      bookkeeping of the sequential read in progress since the reader
\*          was constructed or last reset:
\*            valid   no seek was called since it began
\*            start   "fresh" (began at construction) or "reset"
\*            dirty   it began with a reset made right after a read, of a
\*                    reader that had been sought and stood at a row other
\*                    than 0
\*            chunk   0 before its first read, c when every read so far was
\*                    read(c), -1 when chunk sizes were mixed
\*            reads   number of reads that returned vectors
\*            acc     the vectors those reads returned, concatenated
\*            ended   a read returned None
\*            sought  some seek succeeded since construction
\* fetched  the batches taken from a parquet batch iterator since the reader
\*          was constructed or last reset
\* handles  what became of the file handles the reader opened:
\*            discarded  the reader object has been discarded
\*            dropped    the reader let go of a handle without closing it
\*            leaked     the reader is gone and a handle it opened is open
\* conc     the callers of a reader shared by two callers (SpecConcurrent),
\*          each field a pair indexed by caller:
\*            serialized  a caller enters read only when no other caller is
\*                        inside it (one flag, not a pair)
\*            pc          where the caller stands in read: "idle" outside it,
\*                        else the statement it executes next
\*            chunk_size, end_offset, vectors   the call's locals
\*            calls       number of reads the caller has begun
\*            delivered   the rows its reads have returned so far
VARIABLES format, self, last, run, fetched, handles, conc

vars == << format, self, last, run, fetched, handles, conc >>

Callers == {1, 2}
\* Most reads one caller of a shared reader makes.
MaxCalls == 2

NoHandles == [discarded |-> FALSE, dropped |-> FALSE, leaked |-> FALSE]

NoCallers ==
    [serialized |-> TRUE,
     pc |-> << "idle", "idle" >>,
     chunk_size |-> << 0, 0 >>,
     end_offset |-> << 0, 0 >>,
     vectors |-> << << >>, << >> >>,
     calls |-> << 0, 0 >>,
     delivered |-> << << >>, << >> >>]

ChunkSizes == 1..MaxChunk
Offsets == (0 - 1)..(MaxRows + 1)

NoCall(s) ==
    [op |-> "none", arg |-> 0, outcome |-> "ok", vectors |-> << >>, value |-> 0,
     opened |-> FALSE, pulls |-> << >>, pre |-> s,
     prev |-> [op |-> "none", arg |-> 0, outcome |-> "ok"]]

NewRun(start, dirty, sought) ==
    [valid |-> TRUE, start |-> start, dirty |-> dirty, chunk |-> 0, reads |-> 0,
     acc |-> << >>, ended |-> FALSE, sought |-> sought]

BrokenRun(sought) ==
    [valid |-> FALSE, start |-> "none", dirty |-> FALSE, chunk |-> 0, reads |-> 0,
     acc |-> << >>, ended |-> FALSE, sought |-> sought]

RunAfter(op, arg, r) ==
    IF op = "reset"
        THEN NewRun("reset", run.sought /\ self.current > 0 /\ last.op = "read",
                    run.sought)
    ELSE IF op = "seek"
        THEN BrokenRun(run.sought \/ r.outcome = "ok")
    ELSE IF op = "read" /\ run.valid /\ r.outcome = "vectors"
        THEN [run EXCEPT !.acc = run.acc \o r.vectors,
                         !.reads = run.reads + 1,
                         !.chunk = IF run.chunk \in {0, arg} THEN arg ELSE 0 - 1]
    ELSE IF op = "read" /\ run.valid /\ r.outcome = "None"
        THEN [run EXCEPT !.ended = TRUE]
    ELSE run

\* A call op(arg) that ended as r.
Call(op, arg, r) ==
    /\ self' = r.self
    /\ last' = [op |-> op, arg |-> arg, outcome |-> r.outcome,
                vectors |-> r.vectors, value |-> r.value, opened |-> r.opened,
                pulls |-> r.pulls, pre |-> self,
                prev |-> [op |-> last.op, arg |-> last.arg, outcome |-> last.outcome]]
    /\ run' = RunAfter(op, arg, r)
    /\ fetched' = IF op = "reset" THEN << >> ELSE fetched \o r.pulls
    /\ handles' = [handles EXCEPT
                      !.dropped = handles.dropped
                                    \/ (format = "parquet" /\ op = "reset"
                                          /\ self.file # << >>)]
    /\ UNCHANGED << format, conc >>

\* The caller is blocked for good in a call that does not return.
Hung == last.outcome = "hang"

\* The reader can be called: its caller is not blocked, and it has not been
\* discarded.
Callable == ~Hung /\ ~handles.discarded

Init ==
    /\ format \in Formats
    /\ \E n \in 0..MaxRows, context \in Contexts, ext \in SUPPORTED_EXTENSION :
          self = get_data_set(format,
                              [n |-> n,
                               ext |-> IF format = "bigann" THEN ext ELSE format,
                               cut |-> 0],
                              IF format = "hdf5" THEN context ELSE "INDEX",
                              "vector")
    /\ last = NoCall(self)
    /\ run = NewRun("fresh", FALSE, FALSE)
    /\ fetched = << >>
    /\ handles = NoHandles
    /\ conc = NoCallers

\* A reader constructed over any file, well-formed or damaged: a flat file
\* cut short or named with an extension that is not supported, a parquet
\* file that holds fewer rows than its metadata declares.
OTHER_EXTENSION == "bin"
InitAnyFile ==
    /\ format \in Formats
    /\ \E n \in 0..MaxRows, context \in Contexts, cut \in 0..MaxCut,
          ext \in SUPPORTED_EXTENSION \cup {OTHER_EXTENSION} :
          self = get_data_set(format,
                              [n |-> n,
                               ext |-> IF format = "bigann" THEN ext ELSE format,
                               cut |-> IF format = "hdf5" THEN 0 ELSE cut],
                              IF format = "hdf5" THEN context ELSE "INDEX",
                              "vector")
    /\ last = NoCall(self)
    /\ run = NewRun("fresh", FALSE, FALSE)
    /\ fetched = << >>
    /\ handles = NoHandles
    /\ conc = NoCallers

HDF5Read ==
    /\ format = "hdf5" /\ Callable
    /\ \E chunk_size \in ChunkSizes : Call("read", chunk_size, HDF5_read(self, chunk_size))
HDF5Seek ==
    /\ format = "hdf5" /\ Callable
    /\ \E offset \in Offsets : Call("seek", offset, HDF5_seek(self, offset))
HDF5Size ==
    /\ format = "hdf5" /\ Callable
    /\ Call("size", 0, HDF5_size(self))
HDF5Reset ==
    /\ format = "hdf5" /\ Callable
    /\ Call("reset", 0, HDF5_reset(self))

ParquetRead ==
    /\ format = "parquet" /\ Callable
    /\ \E chunk_size \in ChunkSizes :
          Call("read", chunk_size, Parquet_read(self, chunk_size))
ParquetSeek ==
    /\ format = "parquet" /\ Callable
    /\ \E offset \in Offsets : Call("seek", offset, Parquet_seek(self, offset))
ParquetSize ==
    /\ format = "parquet" /\ Callable
    /\ Call("size", 0, Parquet_size(self))
ParquetReset ==
    /\ format = "parquet" /\ Callable
    /\ Call("reset", 0, Parquet_reset(self))

BigANNRead ==
    /\ format = "bigann" /\ Callable
    /\ \E chunk_size \in ChunkSizes :
          Call("read", chunk_size, BigANN_read(self, chunk_size))
BigANNSeek ==
    /\ format = "bigann" /\ Callable
    /\ \E offset \in Offsets : Call("seek", offset, BigANN_seek(self, offset))
BigANNSize ==
    /\ format = "bigann" /\ Callable
    /\ Call("size", 0, BigANN_size(self))
BigANNReset ==
    /\ format = "bigann" /\ Callable
    /\ Call("reset", 0, BigANN_reset(self))

\* The reader is discarded.  BigANNVectorDataSet.__del__ closes self.file if
\* it is set.  HDF5DataSet and ParquetDataSet define no __del__ and never call
\* close: what they hold (the h5py file behind self.data, the ParquetFile in
\* self.file) and what ParquetDataSet.reset let go of is closed only if the
\* runtime's collector has finalised it, which it may or may not have done.
BigANN_del(s, h) ==
    [h EXCEPT !.discarded = TRUE,
              !.leaked = IF s.file # << >> THEN FALSE ELSE h.dropped]

Unreferenced(h, held, collected) ==
    [h EXCEPT !.discarded = TRUE,
              !.leaked = (held \/ h.dropped) /\ ~collected]

HDF5Discard ==
    /\ format = "hdf5" /\ Callable
    /\ \E collected \in BOOLEAN :
          handles' = Unreferenced(handles, self.data # << >>, collected)
    /\ UNCHANGED << format, self, last, run, fetched, conc >>
ParquetDiscard ==
    /\ format = "parquet" /\ Callable
    /\ \E collected \in BOOLEAN :
          handles' = Unreferenced(handles, self.file # << >>, collected)
    /\ UNCHANGED << format, self, last, run, fetched, conc >>
BigANNDel ==
    /\ format = "bigann" /\ Callable
    /\ handles' = BigANN_del(self, handles)
    /\ UNCHANGED << format, self, last, run, fetched, conc >>

Next ==
    \/ HDF5Read \/ HDF5Seek \/ HDF5Size \/ HDF5Reset \/ HDF5Discard
    \/ ParquetRead \/ ParquetSeek \/ ParquetSize \/ ParquetReset \/ ParquetDiscard
    \/ BigANNRead \/ BigANNSeek \/ BigANNSize \/ BigANNReset \/ BigANNDel

Spec == Init /\ [][Next]_vars

SpecAnyFile == InitAnyFile /\ [][Next]_vars

\* ------------------------------------------- one reader shared by two callers
\* HDF5DataSet.read statement by statement, each statement reading and
\* writing the shared reader at its own moment.
\* end_offset = self.current + chunk_size, cut down to self.size()
HDF5_read_end_offset(s, chunk_size) ==
    IF s.current + chunk_size > Len(s.data[1])
    THEN Len(s.data[1])
    ELSE s.current + chunk_size

\* vectors = self.data[self.current:end_offset]
HDF5_read_slice(s, end_offset) == PySlice(s.data[1], s.current, end_offset)

HDF5_read_store_nothing(s, end_offset) == s

\* self.current = end_offset
HDF5_read_store(s, end_offset) == [s EXCEPT !.current = end_offset]

\* The caller's locals once its call has returned.
Returned(c, rows) ==
    [conc EXCEPT !.pc[c] = "idle", !.chunk_size[c] = 0, !.end_offset[c] = 0,
                 !.vectors[c] = << >>,
                 !.delivered[c] = conc.delivered[c] \o rows]

\* Caller c calls read(chunk_size): self._load().
ReadBegin(c) ==
    /\ conc.pc[c] = "idle" /\ conc.calls[c] < MaxCalls
    /\ conc.serialized => \A d \in Callers : conc.pc[d] = "idle"
    /\ \E chunk_size \in ChunkSizes :
          conc' = [conc EXCEPT !.pc[c] = "check", !.chunk_size[c] = chunk_size,
                               !.calls[c] = conc.calls[c] + 1]
    /\ self' = HDF5_load(self).self
    /\ UNCHANGED << format, last, run, fetched, handles >>

\* if self.current >= self.size(): return None
ReadCheck(c) ==
    /\ conc.pc[c] = "check"
    /\ conc' = IF self.current >= HDF5_size(self).value
               THEN Returned(c, << >>)
               ELSE [conc EXCEPT !.pc[c] = "end"]
    /\ UNCHANGED << format, self, last, run, fetched, handles >>

ReadEnd(c) ==
    /\ conc.pc[c] = "end"
    /\ conc' = [conc EXCEPT
                   !.pc[c] = "slice",
                   !.end_offset[c] = HDF5_read_end_offset(self, conc.chunk_size[c])]
    /\ UNCHANGED << format, self, last, run, fetched, handles >>

ReadSlice(c) ==
    /\ conc.pc[c] = "slice"
    /\ conc' = [conc EXCEPT
                   !.pc[c] = "store",
                   !.vectors[c] = HDF5_read_slice(self, conc.end_offset[c])]
    /\ UNCHANGED << format, self, last, run, fetched, handles >>

\* self.current = end_offset; return vectors
ReadStore(c) ==
    /\ conc.pc[c] = "store"
    /\ self' = HDF5_read_store(self, conc.end_offset[c])
    /\ conc' = Returned(c, conc.vectors[c])
    /\ UNCHANGED << format, last, run, fetched, handles >>

InitConcurrent ==
    /\ format = "hdf5"
    /\ \E n \in 0..MaxRows :
          self = get_data_set(format, [n |-> n, ext |-> format, cut |-> 0],
                              "INDEX", "vector")
    /\ last = NoCall(self)
    /\ run = NewRun("fresh", FALSE, FALSE)
    /\ fetched = << >>
    /\ handles = NoHandles
    /\ \E serialized \in BOOLEAN :
          conc = [NoCallers EXCEPT !.serialized = serialized]

NextConcurrent ==
    \/ \E c \in Callers : ReadBegin(c)
    \/ \E c \in Callers : ReadCheck(c)
    \/ \E c \in Callers : ReadEnd(c)
    \/ \E c \in Callers : ReadSlice(c)
    \/ \E c \in Callers : ReadStore(c)

SpecConcurrent == InitConcurrent /\ [][NextConcurrent]_vars

\* ------------------------------------------------- vocabulary of the claims
\* The calls of the reader in use, by format.
ReadOf(fmt, s, chunk_size) ==
    IF fmt = "hdf5" THEN HDF5_read(s, chunk_size)
    ELSE IF fmt = "parquet" THEN Parquet_read(s, chunk_size)
    ELSE BigANN_read(s, chunk_size)
SizeOf(fmt, s) ==
    IF fmt = "hdf5" THEN HDF5_size(s).value
    ELSE IF fmt = "parquet" THEN Parquet_size(s).value
    ELSE BigANN_size(s).value
SeekOf(fmt, s, offset) ==
    IF fmt = "hdf5" THEN HDF5_seek(s, offset)
    ELSE IF fmt = "parquet" THEN Parquet_seek(s, offset)
    ELSE BigANN_seek(s, offset)

\* A freshly constructed reader over the file s reads.
Fresh(fmt, s) ==
    IF fmt = "hdf5" THEN [s EXCEPT !.current = BEGINNING, !.data = << >>]
    ELSE IF fmt = "parquet" THEN Parquet_init(s.dataset_path, s.column)
    ELSE BigANN_init(s.dataset_path)

\* size() of the data set the reader is on.
DataSetSize == SizeOf(format, self)

\* The rows of the data set: what reading from the beginning gives, as one
\* read(size()) on a fresh reader.
DataSetRows ==
    IF DataSetSize = 0 THEN << >>
    ELSE ReadOf(format, Fresh(format, self), DataSetSize).vectors

\* Rows first .. last - 1 (0-based, half open) of the data set.
Rows(first, end) == SubSeq(DataSetRows, first + 1, end)

\* A full sequential read of reader s in chunks of chunk_size: the vectors
\* of the successive reads, concatenated, up to the first None.
RECURSIVE SequentialRead(_, _, _, _)
SequentialRead(fmt, s, chunk_size, fuel) ==
    LET r == ReadOf(fmt, s, chunk_size)
    IN  IF fuel = 0 \/ r.outcome # "vectors" THEN << >>
        ELSE r.vectors \o SequentialRead(fmt, r.self, chunk_size, fuel - 1)

CeilDiv(a, b) == (a + b - 1) \div b

FileOpen(fmt, s) == IF fmt = "hdf5" THEN s.data # << >> ELSE s.file # << >>

\* The parquet reader's window and held batch.
Window(s) == << s.file_batch_start, s.file_batch_end, s.prev_batch >>

IsSeqNoDup(q) == \A i, j \in 1..Len(q) : q[i] = q[j] => i = j

\* ------------------------------------------------------------------ claims

\* C1: a read(chunkSize) made at cursor < size() that returns gives exactly
\* n = min(chunkSize, size() - cursor) vectors, namely rows cursor ..
\* cursor + n - 1 in order, and moves the cursor forward by n.
C1_ReadReturnsRowsAtCursor ==
    (last.op = "read" /\ last.pre.current < DataSetSize /\ last.outcome # "hang")
        => LET n == Min(last.arg, DataSetSize - last.pre.current)
           IN  /\ last.outcome = "vectors"
               /\ Len(last.vectors) = n
               /\ last.vectors = Rows(last.pre.current, last.pre.current + n)
               /\ self.current = last.pre.current + n

\* C2: seek(offset) with 0 <= offset < size(), then read(1): the read returns
\* the single vector that is row offset of the data set.
C2_SeekThenReadOne ==
    (/\ last.op = "read" /\ last.arg = 1 /\ last.outcome # "hang"
     /\ last.prev.op = "seek" /\ last.prev.outcome = "ok")
        => /\ last.outcome = "vectors"
           /\ last.vectors = Rows(last.prev.arg, last.prev.arg + 1)

\* C3: every call of read, seek, size or reset terminates (returns or
\* raises).
C3_EveryCallTerminates == last.outcome # "hang"

C5_ResetThenFullRead ==
    (run.valid /\ run.start = "reset") =>
        LET fresh == SequentialRead(format, Fresh(format, self), 1, MaxRows + 1)
        IN  /\ last.op = "read" => last.outcome \in {"vectors", "None"}
            /\ Len(run.acc) <= Len(fresh)
            /\ run.acc = SubSeq(fresh, 1, Len(run.acc))
            /\ run.ended => run.acc = fresh

\* A reader that was read, sought elsewhere and then reset, read to the end.
C5_Witness ==
    /\ format = "parquet"
    /\ run.valid /\ run.start = "reset" /\ run.dirty /\ run.ended
    /\ DataSetSize >= 3 /\ Len(run.acc) = DataSetSize
    /\ last.op = "read" /\ last.outcome = "None"

\* C6: 0 <= cursor <= size() in every reachable state.
C6_CursorInRange == 0 <= self.current /\ self.current <= DataSetSize

\* A read whose chunk ran past the end left the cursor at size(), and a seek
\* to size() was then rejected.
C6_Witness ==
    /\ last.op = "seek" /\ last.arg >= DataSetSize /\ last.outcome = "raise"
    /\ self.current = DataSetSize /\ DataSetSize > 0
    /\ last.prev.op = "read" /\ last.prev.arg > 1

\* C7 as stated: seek(offset) raises exactly when offset < 0 or
\* offset >= size(); a seek that raises leaves the cursor unchanged and,
\* for the flat reader, the stream position of the open file and, for the
\* columnar reader, the window and the held batch; a seek that returns sets
\* cursor = offset.
C7_FailedSeekChangesNothing ==
    last.op = "seek" =>
        /\ last.outcome = "raise" <=> (last.arg < 0 \/ last.arg >= DataSetSize)
        /\ last.outcome = "ok" => self.current = last.arg
        /\ last.outcome = "raise" =>
              /\ self.current = last.pre.current
              /\ (format = "bigann" /\ last.pre.file # << >>)
                    => self.file = last.pre.file
              /\ format = "parquet" => Window(self) = Window(last.pre)

\* C7 amended: as above, except that on the columnar reader the window and
\* the held batch are left unchanged by a rejected seek only when the reader
\* holds its file; a seek rejected for offset >= size() that is the first
\* access after reset() loads the file again, which empties the window and
\* drops the held batch.  A seek rejected for offset < 0 changes nothing.
C7_SeekOutcome ==
    last.op = "seek" =>
        /\ last.outcome = "raise" <=> (last.arg < 0 \/ last.arg >= DataSetSize)
        /\ last.outcome = "ok" => self.current = last.arg
        /\ last.outcome = "raise" =>
              /\ self.current = last.pre.current
              /\ (format = "bigann" /\ last.pre.file # << >>)
                    => self.file = last.pre.file
              /\ (format = "parquet" /\ (last.pre.file # << >> \/ last.arg < 0))
                    => Window(self) = Window(last.pre)
              /\ (format = "parquet" /\ last.pre.file = << >> /\ last.arg >= 0)
                    => Window(self) = << 0, 0, << >> >>

\* A columnar reader holding a batch was reset and then asked to seek past
\* the end: the seek raised and the held batch is gone.
C7_Witness ==
    /\ format = "parquet" /\ last.op = "seek" /\ last.outcome = "raise"
    /\ last.arg >= DataSetSize
    /\ last.pre.file = << >> /\ last.pre.prev_batch # << >>
    /\ self.prev_batch = << >>

\* C8: read called at cursor >= size() returns None, without raising, and
\* leaves the cursor, the columnar window and held batch and the position of
\* the flat reader's open stream unchanged; read called at cursor < size()
\* never returns None.
C8_ReadAtEnd ==
    last.op = "read" =>
        /\ last.pre.current >= DataSetSize =>
              /\ last.outcome = "None"
              /\ self.current = last.pre.current
              /\ format = "parquet" => Window(self) = Window(last.pre)
              /\ (format = "bigann" /\ last.pre.file # << >>)
                    => self.file = last.pre.file
        /\ last.pre.current < DataSetSize => last.outcome # "None"

\* A columnar reader at the end of a file of several batches, holding the
\* last batch, is read once more.
C8_Witness ==
    /\ format = "parquet" /\ last.op = "read" /\ last.outcome = "None"
    /\ DataSetSize > DEFAULT_BATCH_SIZE
    /\ last.pre.current = DataSetSize /\ self.prev_batch # << >>

\* The part of rows [first, end) that batch k of parquet file p holds,
\* followed by the parts the batches after it hold.
RECURSIVE Stitch(_, _, _, _)
Stitch(p, k, first, end) ==
    IF k * DEFAULT_BATCH_SIZE >= end THEN << >>
    ELSE PySlice(IterBatch(p, k),
                 Max(first - k * DEFAULT_BATCH_SIZE, 0),
                 Min(end - k * DEFAULT_BATCH_SIZE, DEFAULT_BATCH_SIZE))
            \o Stitch(p, k + 1, first, end)

\* C9: columnar reader under sequential reads (no seek): a read covering rows
\* [s, e) returns rows s .. e - 1 assembled in order from the consecutive
\* batches that overlap [s, e); afterwards the batch held is the one that
\* contains row e - 1 and the window is that batch's row range; and between
\* two resets no batch is taken from the iterator twice.
C9_Stitching ==
    format = "parquet" =>
        /\ IsSeqNoDup(fetched)
        /\ (run.valid /\ last.op = "read" /\ last.outcome = "vectors") =>
              LET s == last.pre.current
                  e == self.current
                  p == self.dataset_path
                  k == (e - 1) \div DEFAULT_BATCH_SIZE
              IN  /\ s < e
                  /\ last.vectors = Stitch(p, s \div DEFAULT_BATCH_SIZE, s, e)
                  /\ self.prev_batch = IterBatch(p, k)
                  /\ self.file_batch_start = k * DEFAULT_BATCH_SIZE
                  /\ self.file_batch_end = self.file_batch_start + Len(IterBatch(p, k))

\* The instance of the claim at the model's scale: after a read that ended
\* inside the first batch, a read of a whole batch's worth of rows takes the
\* tail of the first batch and the head of the second, which is then held,
\* the first batch having been taken from the iterator once.
C9_Witness ==
    /\ format = "parquet" /\ run.valid
    /\ DataSetSize > 2 * DEFAULT_BATCH_SIZE
    /\ last.op = "read" /\ last.outcome = "vectors"
    /\ last.pre.current = DEFAULT_BATCH_SIZE - 1
    /\ self.current = 2 * DEFAULT_BATCH_SIZE - 1
    /\ Len(last.vectors) = DEFAULT_BATCH_SIZE
    /\ fetched = << 0, 1 >> /\ last.pulls = << 1 >>
    /\ self.prev_batch = IterBatch(self.dataset_path, 1)
    /\ self.file_batch_start = DEFAULT_BATCH_SIZE
    /\ self.file_batch_end = 2 * DEFAULT_BATCH_SIZE

\* The calls of the columnar reader by name.
ParquetCall(op, arg, s) ==
    IF op = "read" THEN Parquet_read(s, arg)
    ELSE IF op = "seek" THEN Parquet_seek(s, arg)
    ELSE IF op = "size" THEN Parquet_size(s)
    ELSE Parquet_reset(s)

\* What C10 says of opening apart from which call opens the file: no file is
\* open at construction; a call opens the file only when none is held;
\* the hierarchical and the flat reader never let go of their file, whose
\* parsed header and selected data set reset() leaves alone; reset() opens
\* nothing; and a call of the columnar reader that opens the file starts from
\* scratch: it ends as the same call on a newly constructed reader placed at
\* the same cursor would.
LazyOpenRules ==
    /\ last.op = "none" => ~FileOpen(format, self)
    /\ last.opened => ~FileOpen(format, last.pre)
    /\ last.op = "reset" => ~last.opened
    /\ (format # "parquet" /\ FileOpen(format, last.pre)) => FileOpen(format, self)
    /\ (format = "hdf5" /\ last.op = "reset") => self.data = last.pre.data
    /\ (format = "bigann" /\ last.op = "reset") =>
          /\ self.num_points = last.pre.num_points
          /\ self.dimension = last.pre.dimension
          /\ self.bytes_per_num = last.pre.bytes_per_num
          /\ self.reader = last.pre.reader
    /\ (format = "parquet" /\ last.op = "reset") => ~FileOpen(format, self)
    /\ (format = "parquet" /\ last.opened) =>
          LET new == [Parquet_init(self.dataset_path, self.column)
                        EXCEPT !.current = last.pre.current]
              r == ParquetCall(last.op, last.arg, new)
          IN  /\ self = r.self
              /\ last.outcome = r.outcome
              /\ last.vectors = r.vectors
              /\ (last.op \in {"seek", "size"}) =>
                    /\ self.batch_iterator = << 0 >>
                    /\ Window(self) = << 0, 0, << >> >>

\* C10 as stated: the rules above, and the file is opened by the first read,
\* seek or size call: a reader that has just served one of these calls holds
\* its file.
C10_OpenedByFirstCall ==
    /\ LazyOpenRules
    /\ last.op \in {"read", "seek", "size"} => FileOpen(format, self)

\* C10 amended: the rules above, and the file is opened by the first call
\* that is a read, a size, a seek of the flat reader, or a seek of the
\* hierarchical or columnar reader with offset >= 0; on those two readers
\* seek(offset) with offset < 0 raises before it loads anything and leaves
\* the reader as it was.
C10_LazyOpen ==
    /\ LazyOpenRules
    /\ (\/ last.op \in {"read", "size"}
        \/ last.op = "seek" /\ (format = "bigann" \/ last.arg >= 0))
          => FileOpen(format, self)
    /\ (last.op = "seek" /\ format # "bigann" /\ last.arg < 0)
          => (self = last.pre /\ ~last.opened /\ last.outcome = "raise")

\* A columnar reader, reset while it held a batch, rejected seek(-1) without
\* opening its file; the file stays closed until a later call.
C10_Witness ==
    /\ format = "parquet" /\ last.op = "seek" /\ last.arg < 0
    /\ last.prev.op = "reset"
    /\ ~FileOpen(format, self) /\ self.prev_batch # << >>

\* -------------------------------------------------- flat files, any content
\* The size equation of a flat file, read off the file itself: it has its
\* 8-byte header, a supported extension, and after the header exactly
\* pointCount * dimension * bytesPerValue bytes, with pointCount and
\* dimension the header's two little-endian fields.
FlatFileValid(p) ==
    /\ Len(FlatFile(p)) >= DATA_SET_HEADER_LENGTH
    /\ p.ext \in SUPPORTED_EXTENSION
    /\ Len(FlatFile(p)) - DATA_SET_HEADER_LENGTH
          = FromBytesLittle(SubSeq(FlatFile(p), 1, 4))
              * FromBytesLittle(SubSeq(FlatFile(p), 5, 8))
              * BytesPerValueOf(p.ext)

\* The call was a read, a seek or a size.
DataCall == last.op \in {"read", "seek", "size"}

\* The call returned to its caller without raising.
ReturnedNormally == last.outcome \in {"vectors", "None", "value", "ok"}

\* C11: a flat reader over a file that violates the size equation or has an
\* unsupported extension is constructed without error and without touching
\* the file (so is it after reset calls alone); the first read, seek or size
\* call made on it raises and returns no data.
C11_LazyValidation ==
    (format = "bigann" /\ ~FlatFileValid(self.dataset_path))
        => /\ (last.op \in {"none", "reset"} /\ last.pre.file = << >>)
                  => (last.outcome = "ok" /\ self.file = << >>
                      /\ self.reader = << >>)
           /\ (DataCall /\ last.pre.file = << >>)
                  => (last.outcome = "raise" /\ last.vectors = << >>
                      /\ last.value = 0)

\* A float file one component short: the first call, a read, raised.
C11_Witness ==
    /\ format = "bigann" /\ self.dataset_path.ext = FBIN_EXTENSION
    /\ self.dataset_path.n >= 1 /\ self.dataset_path.cut = BYTES_PER_FLOAT
    /\ last.op = "read" /\ last.pre.file = << >> /\ last.outcome = "raise"

\* C14: whenever a read, seek or size call of a flat reader returns normally,
\* the file satisfies the size equation: on a file that violates it, is
\* shorter than 8 bytes or has an unsupported extension, no such call
\* returns normally, calls made after an earlier failed call included.
C14_ValidationIsFatal ==
    (format = "bigann" /\ DataCall /\ ReturnedNormally)
        => FlatFileValid(self.dataset_path)

\* ------------------------------------------------------------ flat decoding
\* What the file says, read off its bytes: the header's dimension, and the
\* scalar in component j (0-based) of row i (0-based): the number its field
\* of bytesPerValue bytes holds, least significant byte first (for the float
\* layout this number stands for the float with these 32 bits).
FileDimension(p) == FromBytesLittle(SubSeq(FlatFile(p), 5, 8))
ScalarAt(p, i, j) ==
    FromBytesLittle(
        SubSeq(FlatFile(p),
               DATA_SET_HEADER_LENGTH
                   + (i * FileDimension(p) + j) * BytesPerValueOf(p.ext) + 1,
               DATA_SET_HEADER_LENGTH
                   + (i * FileDimension(p) + j + 1) * BytesPerValueOf(p.ext)))
VectorAt(p, i) == [j \in 1..FileDimension(p) |-> ScalarAt(p, i, j - 1)]
VectorsAt(p, first, count) == [i \in 1..count |-> VectorAt(p, first + i - 1)]

\* Two values are the same value with the same nesting: a scalar and a
\* one-element tuple holding it are not.
SameValue(a, b) == ToString(a) = ToString(b)

\* C12: a read of the flat reader returns the rows from the cursor on in file
\* order, each a sequence of exactly `dimension` scalars in file order: for
\* the float layout the value of the component's 4-byte little-endian field,
\* for the unsigned layout the value of its byte, with no further nesting.
C12_FlatDecode ==
    (format = "bigann" /\ last.op = "read" /\ last.outcome = "vectors")
        => SameValue(last.vectors,
                     VectorsAt(self.dataset_path, last.pre.current,
                               Len(last.vectors)))

\* ------------------------------------------------ columnar file, rows missing
\* A read of the columnar reader whose range [cursor, min(cursor + chunk,
\* size)) reaches past the rows the batch iterator has to give.
NeedsMissingRows ==
    /\ format = "parquet" /\ last.op = "read"
    /\ last.pre.current < ParquetNumRows(self.dataset_path)
    /\ Min(last.pre.current + last.arg, ParquetNumRows(self.dataset_path))
          > Len(ParquetColumn(self.dataset_path))

\* C15: when the batch iterator yields fewer rows than size() declares, a
\* read whose range needs rows beyond those yielded raises; it returns no
\* vectors, short or otherwise, it does not loop, and it leaves the cursor
\* where it was.
C15_ExhaustionRaises ==
    NeedsMissingRows
        => (last.outcome = "raise" /\ last.vectors = << >>
            /\ self.current = last.pre.current)

\* The same for the reads of a sequential run alone, one that no seek has
\* touched since the reader was constructed or reset.
SequentialExhaustionRaises ==
    (NeedsMissingRows /\ run.valid)
        => (last.outcome = "raise" /\ last.vectors = << >>
            /\ self.current = last.pre.current)

\* ---------------------------------------------------------- columnar window
\* C16: between operations of the columnar reader, after any sequence of
\* read, seek and reset calls, windowStart <= windowEnd, and whenever a
\* leftover batch is held the window is as long as that batch; a reader just
\* loaded or re-loaded has the window [0,0) and holds no batch.
C16_WindowInvariant ==
    format = "parquet"
        => /\ self.file_batch_start <= self.file_batch_end
           /\ self.prev_batch # << >>
                  => self.file_batch_end - self.file_batch_start
                        = Len(self.prev_batch)
           /\ (last.opened /\ last.op \in {"seek", "size"})
                  => Window(self) = << 0, 0, << >> >>

\* A reader that was sought holds, after a read, the short last batch of its
\* file, with a window that does not start at row 0.
C16_Witness ==
    /\ format = "parquet" /\ last.op = "read" /\ run.sought
    /\ self.prev_batch # << >> /\ Len(self.prev_batch) < DEFAULT_BATCH_SIZE
    /\ self.file_batch_start > 0

\* ------------------------------------------------- columnar extraction slices
\* The slices a read takes, one record per slice in the order taken:
\*   begin, end   the two offsets of batch[begin:end] (end is len(batch) for
\*                batch[begin:])
\*   len          len(batch)
\*   start, stop  start_offset (after clamping) and end_offset of the iteration
\*   window       file_batch_start of the iteration
SliceOffsets(s1, batch, start, end_offset) ==
    [begin |-> Len(batch) - (s1.file_batch_end - start),
     end |-> IF end_offset <= s1.file_batch_end
             THEN Len(batch) - (s1.file_batch_end - end_offset)
             ELSE Len(batch),
     len |-> Len(batch),
     start |-> start,
     stop |-> end_offset,
     window |-> s1.file_batch_start]

\* The loop of _extract_vectors, followed as ExtractLoop follows it, keeping
\* the offsets of each slice in place of the rows.
RECURSIVE SliceLoop(_, _, _, _)
SliceLoop(s, start_offset, end_offset, slices) ==
    LET g == Parquet_get_batch(s)
        s1 == g.self
        batch == g.batch
        start == IF start_offset < s1.file_batch_start
                 THEN s1.file_batch_start ELSE start_offset
    IN  IF g.outcome = "raise" \/ batch = << >>
        THEN slices
        ELSE IF start_offset > s1.file_batch_end
        THEN IF g.pulls = << >>
             THEN slices
             ELSE SliceLoop(s1, start_offset, end_offset, slices)
        ELSE IF end_offset <= s1.file_batch_end
        THEN Append(slices, SliceOffsets(s1, batch, start, end_offset))
        ELSE SliceLoop([s1 EXCEPT !.prev_batch = << >>], start, end_offset,
                       Append(slices, SliceOffsets(s1, batch, start, end_offset)))

\* The slices read(chunk_size) takes on reader s.
ReadSlices(s, chunk_size) ==
    LET l == Parquet_load(s).self
        size == ParquetNumRows(l.dataset_path)
    IN  IF l.current >= size
        THEN << >>
        ELSE SliceLoop(l, l.current,
                       IF l.current + chunk_size > size
                       THEN size ELSE l.current + chunk_size,
                       << >>)

SliceInBounds(sl) ==
    /\ 0 <= sl.begin /\ sl.begin <= sl.end /\ sl.end <= sl.len
    /\ sl.begin = sl.start - sl.window
    /\ sl.end = sl.stop - sl.window \/ (sl.end = sl.len /\ sl.stop - sl.window > sl.len)

\* C17: every slice a read of the columnar reader takes, in any state
\* reachable through read, seek and reset, has
\* 0 <= beginOffset <= endOffset <= len(batch), with beginOffset =
\* start - windowStart and endOffset = end - windowStart, or len(batch) when
\* the range runs past the window: no offset is negative or reversed.
C17_SliceBounds ==
    (format = "parquet" /\ last.op = "read")
        => \A i \in 1..Len(ReadSlices(last.pre, last.arg)) :
              SliceInBounds(ReadSlices(last.pre, last.arg)[i])

\* The same for the reads of a sequential run alone, one that no seek has
\* touched since the reader was constructed or reset.
SequentialSliceBounds ==
    (format = "parquet" /\ last.op = "read" /\ run.valid)
        => \A i \in 1..Len(ReadSlices(last.pre, last.arg)) :
              SliceInBounds(ReadSlices(last.pre, last.arg)[i])

\* ------------------------------------------------------------ reset's frame
\* C18: reset() sets the cursor to 0 on every reader.  On the flat reader it
\* also puts the stream at byte 8 when the file is open, does nothing to the
\* stream when it was never opened, and leaves pointCount, dimension,
\* bytesPerValue and the handle as they were; on the hierarchical reader it
\* changes nothing but the cursor.
C18_ResetFrame ==
    last.op = "reset"
        => /\ last.outcome = "ok" /\ self.current = 0
           /\ format = "hdf5" => self = [last.pre EXCEPT !.current = 0]
           /\ format = "bigann"
                  => self = [last.pre EXCEPT
                                !.current = 0,
                                !.file = IF last.pre.file = << >>
                                         THEN << >>
                                         ELSE << DATA_SET_HEADER_LENGTH >>]

\* A flat reader was reset while its stream stood past the header and its
\* cursor past row 0.
C18_Witness ==
    /\ format = "bigann" /\ last.op = "reset"
    /\ last.pre.file # << >> /\ last.pre.current > 0
    /\ self.file = << DATA_SET_HEADER_LENGTH >> /\ self.num_points > 0

\* ------------------------------------------------ flat cursor and stream
\* C19: once a flat reader has been initialised successfully, between
\* operations (after any read, any seek, accepted or rejected, and any
\* reset) the stream stands at byte 8 + dimension * bytesPerValue * cursor.
C19_StreamFollowsCursor ==
    (format = "bigann" /\ self.reader # << >>)
        => self.file = << DATA_SET_HEADER_LENGTH
                            + self.dimension * self.bytes_per_num * self.current >>

\* A float reader that has read rows, after a seek that was rejected.
C19_Witness ==
    /\ format = "bigann" /\ self.reader = << FBIN_EXTENSION >>
    /\ last.op = "seek" /\ last.outcome = "raise" /\ self.current > 0
    /\ last.prev.op = "read"

\* --------------------------------------------------------- handles released
\* C13: every file handle a reader opened is released by the time the reader
\* is discarded, on every path: after normal use, after an error during
\* header parsing or in a read, and for a handle the columnar reader's
\* reset() dropped; no handle is open once its reader is gone.
C13_HandlesReleased == handles.discarded => ~handles.leaked

\* The same for the flat reader alone.
FlatHandlesReleased ==
    (format = "bigann" /\ handles.discarded) => ~handles.leaked

\* ------------------------------------------------------------ shared reader
\* The rows of the data set the shared reader is on, and all rows delivered
\* so far, to either caller.
SharedRows == h5pyDataset(self.dataset_path, self.context)
AllDelivered == conc.delivered[1] \o conc.delivered[2]

\* One row was delivered to both callers.
DeliveredToBoth ==
    \E i \in 1..Len(conc.delivered[1]), j \in 1..Len(conc.delivered[2]) :
        conc.delivered[1][i] = conc.delivered[2][j]

\* The cursor stands past a row that was delivered to neither caller.
SkippedRow ==
    \E i \in 1..self.current :
        \A k \in 1..Len(AllDelivered) : AllDelivered[k] # SharedRows[i]

\* C20: with the read calls of two callers on one reader serialized, no row
\* is delivered twice and the cursor never passes a row that was delivered
\* to neither: the rows delivered so far are the rows before the cursor, in
\* the order read.  With the statements of the two calls interleaved this
\* fails (C20_Witness).
C20_SerializedReadsAreSafe ==
    conc.serialized
        => /\ ~DeliveredToBoth /\ ~SkippedRow
           /\ IsSeqNoDup(AllDelivered)
           /\ Len(AllDelivered) = self.current

\* Two callers, their read calls not serialized: a row went to both of them,
\* or the cursor passed a row that went to neither.
C20_Witness ==
    /\ ~conc.serialized
    /\ DeliveredToBoth \/ SkippedRow

====
